---- MODULE Spec2Model ----
(***************************************************************************)
(* Model of experiment.py: the host program of a tapping experiment that   *)
(* talks to a tapping pad over a serial link.  The host is one sequential  *)
(* process (pc is its position in the script); the pad is the environment, *)
(* a source of bytes that arrive in the serial input buffer while the host *)
(* runs.  Host steps are atomic between two serial calls.                  *)
(***************************************************************************)
EXTENDS Integers, Sequences, FiniteSets, TLC

(***************************************************************************)
(* Bytes.  A bytes object of length one is its integer value, a longer one *)
(* a sequence of integers; a Python str is a TLA+ string.                  *)
(***************************************************************************)
ByteB == 66
ByteC == 67
ByteH == 72
ByteI == 73
ByteP == 80
ByteR == 82
ByteS == 83
ByteT == 84
ByteX == 88
LF == 10

\* b'Ready!\r\n'
ReadyBanner == <<82, 101, 97, 100, 121, 33, 13, 10>>
\* b'NotReady\r\n', a banner the pad is not meant to send
NotReadyBanner == <<78, 111, 116, 82, 101, 97, 100, 121, 13, 10>>
\* message = None
NoneMessage == <<-1>>
\* a name that has not been assigned yet
Unset == -1

(***************************************************************************)
(* Program constants.                                                      *)
(***************************************************************************)
nbytes == 4
nspr_taps == 30
EchoAttempts == 5
octaves == <<2, 3, 4, 5, 6, 7>>
iois == <<400, 600>>
practice_ioi == 500
repetitions_per_block == 2
blocks == 5
trials_per_block == Len(octaves) * repetitions_per_block

(***************************************************************************)
(* Bounds of the model.                                                    *)
(***************************************************************************)
\* bytes the input buffer holds before the pad waits
MaxBuf == 4
\* the same while the pad sends its startup text (a banner is one line)
MaxLineBuf == 10
\* bytes of all_messages the model keeps (the text is only displayed)
MaxText == 32
\* messages in a startup script of the pad
MaxBootMsgs == 2
\* events in a script of the pad for one sync-continuation trial
MaxEvents == 4
\* the same for a pad of the brief profile
BriefEvents == 2
\* taps the pad reports during the tap-counting task
MaxSprTaps == 1
\* events the pad sends beyond the nspr_taps-th release
MaxSprExtra == 1
\* trials of the main task the model runs
MaxTrials == 1

VARIABLES
    pc,            \* position of the host in the script
    arduino_ser,   \* the serial link: "unbound", "open" or "closed"
    in_buf,        \* bytes received and not yet read (arduino_ser.in_waiting)
    out_buf,       \* bytes written by the host and not yet taken by the pad
    message,       \* handshake: the last line read
    all_messages,  \* handshake: every line read, concatenated
    ready,         \* handshake: a line was the banner
    i,             \* handshake: the echo loop's variable
    in_byte,       \* the last byte read by arduino_ser.read()
    error,         \* the exception raised, if any
    phase,         \* sync-continuation: the current phase, a str
    tone_times, tap_types, tap_times, release_times,
    timestamp,     \* read_timestamp: the bytes accumulated so far
    cont_score,
    trial_index,   \* number of entries of trial_order already taken
    trial_number, block_number,
    tags_read,     \* the values in_byte took in the current task loop
    lines_read,    \* the set of values arduino_ser.readline() has returned
    dev_mode,      \* the pad: "boot", "spr", "trial" or "idle"
    dev_profile,   \* the pad: its repertoire of scripts, "full", "brief", ...
    dev_script,    \* the pad: the messages it is sending
    dev_sent       \* the pad: how many bytes of dev_script it has sent

vars == <<pc, arduino_ser, in_buf, out_buf, message, all_messages, ready, i,
          in_byte, error, phase, tone_times, tap_types, tap_times,
          release_times, timestamp, cont_score, trial_index, trial_number,
          block_number, tags_read, lines_read, dev_mode, dev_profile,
          dev_script, dev_sent>>

hsVars == <<message, all_messages, ready, i, lines_read>>
recVars == <<tone_times, tap_types, tap_times, release_times>>
loopVars == <<trial_index, trial_number, block_number>>
devVars == <<dev_mode, dev_profile, dev_script, dev_sent>>
taskVars == <<in_byte, phase, recVars, timestamp, cont_score, loopVars,
              tags_read>>

(***************************************************************************)
(* Helpers on sequences.                                                   *)
(***************************************************************************)
RECURSIVE Flatten(_)
Flatten(ss) == IF ss = <<>> THEN <<>> ELSE Head(ss) \o Flatten(Tail(ss))

Last(s) == s[Len(s)]

SeqsUpTo(S, n) == UNION {[1..m -> S] : m \in 0..n}

RECURSIVE SubsetsUpTo(_, _)
SubsetsUpTo(S, k) ==
    IF k = 0 THEN {{}}
    ELSE LET r == SubsetsUpTo(S, k - 1)
         IN  r \cup {x \cup {a} : x \in r, a \in S}

RECURSIVE SumSeq(_)
SumSeq(s) == IF s = <<>> THEN 0 ELSE Head(s) + SumSeq(Tail(s))

NoError == [kind |-> "none", arg |-> <<>>]
Raise(k, a) == [kind |-> k, arg |-> a]

(***************************************************************************)
(* The serial link as the host sees it.                                    *)
(***************************************************************************)
\* arduino_ser.readline() with timeout=1: the bytes up to and including the
\* first line feed, or, when the wait for the next byte times out, the bytes
\* received so far (none, when nothing came).
ReadlineLen(buf) ==
    IF \E k \in 1..Len(buf) : buf[k] = LF
    THEN CHOOSE k \in 1..Len(buf) :
             buf[k] = LF /\ \A j \in 1..(k - 1) : buf[j] # LF
    ELSE Len(buf)

\* all_messages += message, of which the model keeps the first MaxText bytes
Collect(all, msg) ==
    LET t == all \o msg
    IN  IF Len(t) <= MaxText THEN t ELSE SubSeq(t, 1, MaxText)

\* a slip: b'Ready' in message
IsReadyLoose(msg) ==
    \E k \in 1..Len(msg) :
        k + 4 <= Len(msg) /\ SubSeq(msg, k, k + 4) = SubSeq(ReadyBanner, 1, 5)

\* message == b'Ready!\r\n'
IsReady(msg) == msg = ReadyBanner

\* in_byte == b'I' in the echo loop
IsAck(b) == b = ByteI

\* a slip: one poll more
EchoHasNextSix(n) == n + 1 <= EchoAttempts

\* range(5) has a value after i
EchoHasNext(n) == n + 1 < EchoAttempts

(***************************************************************************)
(* ESTABLISH ARDUINO CONNECTION                                            *)
(***************************************************************************)
\* ser.Serial(serial_port, 9600, timeout=1): the port opens, or it raises
Open ==
    /\ pc = "open"
    /\ \/ /\ arduino_ser' = "open"
          /\ ready' = FALSE
          /\ message' = NoneMessage
          /\ all_messages' = <<>>
          /\ pc' = "banner"
          /\ UNCHANGED error
       \/ /\ error' = Raise("SerialException", <<>>)
          /\ pc' = "except"
          /\ UNCHANGED <<arduino_ser, ready, message, all_messages>>
    /\ UNCHANGED <<in_buf, out_buf, i, lines_read, taskVars, devVars>>

\* one pass of `while not message == b''`
BannerRead ==
    /\ pc = "banner"
    /\ message # <<>>
    /\ LET n == ReadlineLen(in_buf)
           line == SubSeq(in_buf, 1, n)
       IN  /\ message' = line
           /\ in_buf' = SubSeq(in_buf, n + 1, Len(in_buf))
           /\ all_messages' = Collect(all_messages, line)
           /\ ready' = (ready \/ IsReady(line))
           /\ lines_read' = lines_read \cup {line}
    /\ UNCHANGED <<pc, arduino_ser, out_buf, i, error, taskVars, devVars>>

\* the loop has ended: `if not ready: raise`
BannerEnd ==
    /\ pc = "banner"
    /\ message = <<>>
    /\ IF ready
       THEN pc' = "hs_reset" /\ UNCHANGED error
       ELSE pc' = "except" /\ error' = Raise("UnexpectedBanner", all_messages)
    /\ UNCHANGED <<arduino_ser, in_buf, out_buf, hsVars, taskVars, devVars>>

\* arduino_ser.reset_input_buffer()
HsReset ==
    /\ pc = "hs_reset"
    /\ in_buf' = <<>>
    /\ pc' = "hello"
    /\ UNCHANGED <<arduino_ser, out_buf, hsVars, error, taskVars, devVars>>

\* arduino_ser.write(b'H')
Hello ==
    /\ pc = "hello"
    /\ out_buf' = Append(out_buf, ByteH)
    /\ pc' = "echo"
    /\ UNCHANGED <<arduino_ser, in_buf, hsVars, error, taskVars, devVars>>

\* one pass of `for i in range(5)`: wait a second, then look for a byte
EchoPoll ==
    /\ pc = "echo"
    /\ EchoHasNext(i)
    /\ i' = i + 1
    /\ IF Len(in_buf) > 0
       THEN /\ in_byte' = Head(in_buf)
            /\ in_buf' = Tail(in_buf)
            /\ IF IsAck(Head(in_buf))
               THEN pc' = "connected" /\ UNCHANGED error
               ELSE /\ pc' = "except"
                    /\ error' = Raise("UnexpectedResponse", <<Head(in_buf)>>)
       ELSE UNCHANGED <<in_byte, in_buf, pc, error>>
    /\ UNCHANGED <<arduino_ser, out_buf, message, all_messages, ready,
                   lines_read, phase, recVars, timestamp, cont_score,
                   loopVars, tags_read, devVars>>

\* the loop's else clause: range(5) is exhausted
EchoElse ==
    /\ pc = "echo"
    /\ ~EchoHasNext(i)
    /\ error' = Raise("NoResponse", <<>>)
    /\ pc' = "except"
    /\ UNCHANGED <<arduino_ser, in_buf, out_buf, hsVars, taskVars, devVars>>

\* `except Exception as e`: show the message, arduino_ser.close(), quit.
\* arduino_ser is a name only once ser.Serial() has returned.
Except ==
    /\ pc = "except"
    /\ IF arduino_ser = "unbound"
       THEN /\ error' = Raise("NameError", <<>>)
            /\ pc' = "crashed"
            /\ UNCHANGED arduino_ser
       ELSE /\ arduino_ser' = "closed"
            /\ pc' = "quit"
            /\ UNCHANGED error
    /\ UNCHANGED <<in_buf, out_buf, hsVars, taskVars, devVars>>

HandshakeNext ==
    Open \/ BannerRead \/ BannerEnd \/ HsReset \/ Hello \/ EchoPoll
        \/ EchoElse \/ Except

(***************************************************************************)
(* read_timestamp and the conversions of the task loops.                   *)
(***************************************************************************)
\* a slip: the most significant byte is left out
RECURSIVE FromBytesLittleSlip(_)
FromBytesLittleSlip(bs) ==
    IF Len(bs) <= 1 THEN 0
    ELSE Head(bs) + 256 * FromBytesLittleSlip(Tail(bs))

RECURSIVE FromBytesLittle(_)
FromBytesLittle(bs) ==
    IF bs = <<>> THEN 0 ELSE Head(bs) + 256 * FromBytesLittle(Tail(bs))

RECURSIVE FromBytesBig(_)
FromBytesBig(bs) ==
    IF bs = <<>> THEN 0
    ELSE 256 * FromBytesBig(SubSeq(bs, 1, Len(bs) - 1)) + Last(bs)

\* int.from_bytes(timestamp, byteorder, signed=False)
FromBytes(bs, byteorder) ==
    IF byteorder = "little" THEN FromBytesLittle(bs) ELSE FromBytesBig(bs)

\* a slip: the loop stops one byte early
TimestampCompleteShort(ts) == Len(ts) >= nbytes - 1

\* `while len(timestamp) < nbytes`
TimestampComplete(ts) == Len(ts) >= nbytes

\* in_byte.decode('utf-8') of a tag byte
Decode(b) ==
    CASE b = ByteS -> "S"
      [] b = ByteC -> "C"
      [] b = ByteT -> "T"
      [] b = ByteR -> "R"
      [] b = ByteI -> "I"
      [] OTHER -> "?"

\* str == bytes in Python 3: a str never equals a bytes object
StrEqBytes(str, bytes) == FALSE

\* `in_byte == b'C' and phase != b'C'`: phase is a str
RelabelGuard(b, ph) == b = ByteC /\ ~StrEqBytes(ph, <<ByteC>>)

\* a slip: in_byte == 'I', a bytes object against a str
IsTrialEndStr(b) == StrEqBytes("I", <<b>>)

\* `in_byte == b'I'` in the loop of a trial
IsTrialEnd(b) == b = ByteI

\* a slip: the first tap is relabelled instead of the last
RelabelFirst(types, b) == [types EXCEPT ![1] = Decode(b)]

\* tap_types[-1] = in_byte.decode('utf-8')
Relabel(types, b) == [types EXCEPT ![Len(types)] = Decode(b)]

\* a slip: the type is appended twice
TapTypesAppendTwice(types, ph) == Append(Append(types, ph), ph)

\* tap_types.append(phase)
TapTypesAppend(types, ph) == Append(types, ph)

\* a slip: the tap's time is read and not kept
TapTimesDropped(times, ts) == times

\* tap_times.append(read_timestamp(arduino_ser))
TapTimesAppend(times, ts) == Append(times, FromBytes(ts, "little"))

\* tone_times.append(read_timestamp(arduino_ser))
ToneTimesAppend(times, ts) == Append(times, FromBytes(ts, "little"))

\* release_times.append(read_timestamp(arduino_ser))
ReleaseTimesAppend(times, ts) == Append(times, FromBytes(ts, "little"))

\* a slip: <= for <
SprContinueOneMore(releases) == Len(releases) <= nspr_taps

\* `while len(release_times) < nspr_taps`
SprContinue(releases) == Len(releases) < nspr_taps

\* '%i' % n as ASCII bytes
RECURSIVE DecimalBytes(_)
DecimalBytes(n) ==
    IF n < 10 THEN <<48 + n>>
    ELSE Append(DecimalBytes(n \div 10), 48 + (n % 10))

\* b'B%i%i' % (octave, ioi)
StartCommand(octave, ioi) ==
    <<ByteB>> \o DecimalBytes(octave) \o DecimalBytes(ioi)

(***************************************************************************)
(* The score.                                                              *)
(***************************************************************************)
\* np.array(tap_times)[np.array(tap_types) == 'C']
RECURSIVE ContTimes(_, _)
ContTimes(times, types) ==
    IF times = <<>> \/ types = <<>> THEN <<>>
    ELSE (IF Head(types) = "C" THEN <<Head(times)>> ELSE <<>>)
             \o ContTimes(Tail(times), Tail(types))

\* np.diff
Diff(xs) == [k \in 1..(Len(xs) - 1) |-> xs[k + 1] - xs[k]]

RECURSIVE SumSqDev(_, _, _)
SumSqDev(ds, n, total) ==
    IF ds = <<>> THEN 0
    ELSE (n * Head(ds) - total) * (n * Head(ds) - total)
             + SumSqDev(Tail(ds), n, total)

SeqMax(xs) == CHOOSE m \in {xs[k] : k \in 1..Len(xs)} :
                  \A k \in 1..Len(xs) : xs[k] <= m
SeqMin(xs) == CHOOSE m \in {xs[k] : k \in 1..Len(xs)} :
                  \A k \in 1..Len(xs) : xs[k] >= m

\* a slip: the root is rounded to the nearest integer
StdRound(ds) ==
    LET n == Len(ds)
        q == SumSqDev(ds, n, SumSeq(ds))
    IN  CHOOSE r \in 0..(SeqMax(ds) - SeqMin(ds) + 1) :
            /\ r = 0 \/ (2 * r - 1) * (2 * r - 1) * n * n * n <= 4 * q
            /\ (2 * r + 1) * (2 * r + 1) * n * n * n > 4 * q

\* int(ds.std()) for a non-empty ds: the mean of the squared deviations from
\* the mean is SumSqDev / n^3 in exact arithmetic; int() truncates its root
StdTrunc(ds) ==
    LET n == Len(ds)
        q == SumSqDev(ds, n, SumSeq(ds))
    IN  CHOOSE r \in 0..(SeqMax(ds) - SeqMin(ds)) :
            /\ r * r * n * n * n <= q
            /\ (r + 1) * (r + 1) * n * n * n > q

(***************************************************************************)
(* SPR TASK                                                                *)
(***************************************************************************)
\* the lists are emptied and arduino_ser.write(b'P') starts the task
SprBegin ==
    /\ pc = "connected"
    /\ tap_types' = <<>>
    /\ tap_times' = <<>>
    /\ release_times' = <<>>
    /\ tags_read' = <<>>
    /\ out_buf' = Append(out_buf, ByteP)
    /\ pc' = "spr_loop"
    /\ UNCHANGED <<arduino_ser, in_buf, hsVars, in_byte, error, phase,
                   tone_times, timestamp, cont_score, loopVars, devVars>>

\* one pass of the while loop that finds a byte waiting: in_byte is read
\* and dispatched
SprPoll ==
    /\ pc = "spr_loop"
    /\ SprContinue(release_times)
    /\ Len(in_buf) > 0
    /\ in_byte' = Head(in_buf)
    /\ in_buf' = Tail(in_buf)
    /\ tags_read' = Append(tags_read, Head(in_buf))
    /\ timestamp' = <<>>
    /\ IF Head(in_buf) = ByteT
       THEN tap_types' = TapTypesAppend(tap_types, "P") /\ pc' = "spr_tap_ts"
       ELSE /\ UNCHANGED tap_types
            /\ pc' = IF Head(in_buf) = ByteR THEN "spr_rel_ts" ELSE "spr_loop"
    /\ UNCHANGED <<arduino_ser, out_buf, hsVars, error, phase, tone_times,
                   tap_times, release_times, cont_score, loopVars, devVars>>

\* read_timestamp called from the T branch: one byte is read; with the
\* fourth the value is appended and the loop goes on
SprTapTime ==
    /\ pc = "spr_tap_ts"
    /\ Len(in_buf) > 0
    /\ timestamp' = Append(timestamp, Head(in_buf))
    /\ in_buf' = Tail(in_buf)
    /\ IF TimestampComplete(timestamp')
       THEN tap_times' = TapTimesAppend(tap_times, timestamp')
            /\ pc' = "spr_loop"
       ELSE UNCHANGED <<tap_times, pc>>
    /\ UNCHANGED <<arduino_ser, out_buf, hsVars, in_byte, error, phase,
                   tone_times, tap_types, release_times, cont_score, loopVars,
                   tags_read, devVars>>

\* read_timestamp called from the R branch
SprReleaseTime ==
    /\ pc = "spr_rel_ts"
    /\ Len(in_buf) > 0
    /\ timestamp' = Append(timestamp, Head(in_buf))
    /\ in_buf' = Tail(in_buf)
    /\ IF TimestampComplete(timestamp')
       THEN release_times' = ReleaseTimesAppend(release_times, timestamp')
            /\ pc' = "spr_loop"
       ELSE UNCHANGED <<release_times, pc>>
    /\ UNCHANGED <<arduino_ser, out_buf, hsVars, in_byte, error, phase,
                   tone_times, tap_types, tap_times, cont_score, loopVars,
                   tags_read, devVars>>

\* the loop condition is false: arduino_ser.write(b'I')
SprStop ==
    /\ pc = "spr_loop"
    /\ ~SprContinue(release_times)
    /\ out_buf' = Append(out_buf, ByteI)
    /\ pc' = "spr_reset"
    /\ UNCHANGED <<arduino_ser, in_buf, hsVars, error, taskVars, devVars>>

\* arduino_ser.reset_input_buffer()
SprReset ==
    /\ pc = "spr_reset"
    /\ in_buf' = <<>>
    /\ pc' = "spr_log"
    /\ UNCHANGED <<arduino_ser, out_buf, hsVars, error, taskVars, devVars>>

\* the record is logged; the main task starts on trial 1 of block 0
SprLog ==
    /\ pc = "spr_log"
    /\ trial_number' = 1
    /\ block_number' = 0
    /\ pc' = "trial_begin"
    /\ UNCHANGED <<arduino_ser, in_buf, out_buf, hsVars, in_byte, error,
                   phase, recVars, timestamp, cont_score, trial_index,
                   tags_read, devVars>>

SprNext ==
    SprBegin \/ SprPoll \/ SprTapTime \/ SprReleaseTime \/ SprStop
        \/ SprReset \/ SprLog

(***************************************************************************)
(* MAIN TASK                                                               *)
(***************************************************************************)
NumTrials == Len(octaves) + blocks * (Len(octaves) * Len(iois)) * repetitions_per_block

\* the (octave, ioi) pairs entry number k of trial_order may hold: a practice
\* trial for each octave first, then shuffled blocks of the conditions
TrialChoices(k) ==
    IF k <= Len(octaves)
    THEN {<<octaves[o], practice_ioi>> : o \in 1..Len(octaves)}
    ELSE {<<octaves[o], iois[j]>> : o \in 1..Len(octaves), j \in 1..Len(iois)}

\* the trials explored: all of trial_order with the pad that plays the same
\* trial every time, MaxTrials with the others
TrialCap == IF dev_profile = "steady" THEN NumTrials ELSE MaxTrials

\* the head of the body of `for trial in trials` for a trial with this
\* octave and ioi: the lists are emptied, the start command is written and
\* phase = 'B'
TrialBeginWith(octave, ioi) ==
    /\ pc = "trial_begin"
    /\ trial_index < NumTrials
    /\ trial_index < TrialCap
    /\ trial_index' = trial_index + 1
    /\ tone_times' = <<>>
    /\ tap_types' = <<>>
    /\ tap_times' = <<>>
    /\ release_times' = <<>>
    /\ tags_read' = <<>>
    /\ out_buf' = out_buf \o StartCommand(octave, ioi)
    /\ phase' = "B"
    /\ pc' = "trial_loop"
    /\ UNCHANGED <<arduino_ser, in_buf, hsVars, in_byte, error, timestamp,
                   cont_score, trial_number, block_number, devVars>>

\* the same for the next entry of trial_order
TrialBegin ==
    \E c \in TrialChoices(trial_index + 1) : TrialBeginWith(c[1], c[2])

\* the same for any octave of one digit and any interval of up to three
TrialBeginAny ==
    \E octave \in 0..9, ioi \in 0..999 : TrialBeginWith(octave, ioi)

\* one pass of `while True` that finds a byte waiting: in_byte is read and
\* dispatched
TrialPoll ==
    /\ pc = "trial_loop"
    /\ Len(in_buf) > 0
    /\ in_byte' = Head(in_buf)
    /\ in_buf' = Tail(in_buf)
    /\ tags_read' = Append(tags_read, Head(in_buf))
    /\ timestamp' = <<>>
    /\ LET b == Head(in_buf)
       IN  IF b \in {ByteS, ByteC}
           THEN IF RelabelGuard(b, phase) /\ tap_types = <<>>
                THEN \* tap_types[-1] of an empty list
                     /\ error' = Raise("IndexError", <<>>)
                     /\ pc' = "crashed"
                     /\ UNCHANGED <<tap_types, phase>>
                ELSE /\ tap_types' = IF RelabelGuard(b, phase)
                                      THEN Relabel(tap_types, b)
                                      ELSE tap_types
                     /\ phase' = Decode(b)
                     /\ pc' = "trial_tone_ts"
                     /\ UNCHANGED error
           ELSE /\ tap_types' = IF b = ByteT
                                 THEN TapTypesAppend(tap_types, phase)
                                 ELSE tap_types
                /\ pc' = CASE b = ByteT -> "trial_tap_ts"
                            [] b = ByteR -> "trial_rel_ts"
                            [] IsTrialEnd(b) -> "trial_reset"
                            [] OTHER -> "trial_loop"
                /\ UNCHANGED <<error, phase>>
    /\ UNCHANGED <<arduino_ser, out_buf, hsVars, tone_times, tap_times,
                   release_times, cont_score, loopVars, devVars>>

\* read_timestamp called from the S/C branch
TrialToneTime ==
    /\ pc = "trial_tone_ts"
    /\ Len(in_buf) > 0
    /\ timestamp' = Append(timestamp, Head(in_buf))
    /\ in_buf' = Tail(in_buf)
    /\ IF TimestampComplete(timestamp')
       THEN tone_times' = ToneTimesAppend(tone_times, timestamp')
            /\ pc' = "trial_loop"
       ELSE UNCHANGED <<tone_times, pc>>
    /\ UNCHANGED <<arduino_ser, out_buf, hsVars, in_byte, error, phase,
                   tap_types, tap_times, release_times, cont_score, loopVars,
                   tags_read, devVars>>

\* read_timestamp called from the T branch
TrialTapTime ==
    /\ pc = "trial_tap_ts"
    /\ Len(in_buf) > 0
    /\ timestamp' = Append(timestamp, Head(in_buf))
    /\ in_buf' = Tail(in_buf)
    /\ IF TimestampComplete(timestamp')
       THEN tap_times' = TapTimesAppend(tap_times, timestamp')
            /\ pc' = "trial_loop"
       ELSE UNCHANGED <<tap_times, pc>>
    /\ UNCHANGED <<arduino_ser, out_buf, hsVars, in_byte, error, phase,
                   tone_times, tap_types, release_times, cont_score, loopVars,
                   tags_read, devVars>>

\* read_timestamp called from the R branch
TrialReleaseTime ==
    /\ pc = "trial_rel_ts"
    /\ Len(in_buf) > 0
    /\ timestamp' = Append(timestamp, Head(in_buf))
    /\ in_buf' = Tail(in_buf)
    /\ IF TimestampComplete(timestamp')
       THEN release_times' = ReleaseTimesAppend(release_times, timestamp')
            /\ pc' = "trial_loop"
       ELSE UNCHANGED <<release_times, pc>>
    /\ UNCHANGED <<arduino_ser, out_buf, hsVars, in_byte, error, phase,
                   tone_times, tap_types, tap_times, cont_score, loopVars,
                   tags_read, devVars>>

\* the I branch: arduino_ser.reset_input_buffer(), break
TrialReset ==
    /\ pc = "trial_reset"
    /\ in_buf' = <<>>
    /\ pc' = "score"
    /\ UNCHANGED <<arduino_ser, out_buf, hsVars, error, taskVars, devVars>>

\* cont_score = int(np.diff(cont_times).std()): the standard deviation of
\* no numbers is nan, and int(nan) raises ValueError
Score ==
    /\ pc = "score"
    /\ LET ds == Diff(ContTimes(tap_times, tap_types))
       IN  IF Len(ds) = 0
           THEN /\ error' = Raise("ValueError", <<>>)
                /\ pc' = "crashed"
                /\ UNCHANGED cont_score
           ELSE /\ cont_score' = StdTrunc(ds)
                /\ pc' = "post"
                /\ UNCHANGED error
    /\ UNCHANGED <<arduino_ser, in_buf, out_buf, hsVars, in_byte, phase,
                   recVars, timestamp, loopVars, tags_read, devVars>>

\* the record is saved; end of practice, post-block break, next trial number
PostTrial ==
    /\ pc = "post"
    /\ IF block_number = 0 /\ trial_number = Len(octaves)
       THEN block_number' = block_number + 1 /\ trial_number' = 0 + 1
       ELSE IF trial_number = trials_per_block /\ block_number # blocks
            THEN block_number' = block_number + 1 /\ trial_number' = 0 + 1
            ELSE block_number' = block_number
                 /\ trial_number' = trial_number + 1
    /\ pc' = "trial_begin"
    /\ UNCHANGED <<arduino_ser, in_buf, out_buf, hsVars, in_byte, error,
                   phase, recVars, timestamp, cont_score, trial_index,
                   tags_read, devVars>>

\* POST-EXPERIMENT: trial_order is exhausted; arduino_ser.close()
Finish ==
    /\ pc = "trial_begin"
    /\ trial_index >= NumTrials
    /\ arduino_ser' = "closed"
    /\ pc' = "quit"
    /\ UNCHANGED <<in_buf, out_buf, hsVars, error, taskVars, devVars>>

TrialNext ==
    TrialBegin \/ TrialPoll \/ TrialToneTime \/ TrialTapTime
        \/ TrialReleaseTime \/ TrialReset \/ Score \/ PostTrial

(***************************************************************************)
(* The pad.  Its program is not part of experiment.py; it is the source of *)
(* the bytes the host reads.  It plays a script of messages byte by byte,  *)
(* and takes a new script when a command of the host reaches it.           *)
(***************************************************************************)
Ev(tag, ts) == <<tag>> \o ts

\* the timestamp of the scripts that do not vary it, 73: its first byte is
\* the letter I.  No timestamp byte of a script is one of S, C, T, R.
Stamp0 == <<73, 0, 0, 0>>
\* 100, 300, 520, 740 as 4 little-endian bytes
ScoreStamps == {<<100, 0, 0, 0>>, <<44, 1, 0, 0>>, <<8, 2, 0, 0>>,
                <<228, 2, 0, 0>>}

\* the banner in two pieces, b'Rea' and b'dy!\r\n'
ReadyHead == SubSeq(ReadyBanner, 1, 3)
ReadyTail == SubSeq(ReadyBanner, 4, 8)
BootMsgs == {ReadyBanner, NotReadyBanner, ReadyHead, ReadyTail, <<ByteI>>,
             <<ByteX>>}
BootScripts == SeqsUpTo(BootMsgs, MaxBootMsgs)
\* what a pad that repeats itself repeats: nothing, or one message
ChattyScripts == SeqsUpTo({ReadyBanner, NotReadyBanner, <<ByteX>>}, 1)

SprMsg(isTap) == IF isTap THEN Ev(ByteT, Stamp0) ELSE Ev(ByteR, Stamp0)
\* releases first, then up to MaxSprTaps taps among the last events, which
\* go MaxSprExtra past the nspr_taps-th release
SprScripts ==
    LET len == nspr_taps + MaxSprTaps + MaxSprExtra
    IN  {[k \in 1..len |-> SprMsg(k \in taps)] :
            taps \in SubsetsUpTo((nspr_taps - 1)..len, MaxSprTaps)}

TrialMsgs == {Ev(g, Stamp0) : g \in {ByteS, ByteC, ByteT, ByteR}}
\* up to n events, and then either the I that ends the trial or nothing more
EventScripts(n) ==
    LET body == SeqsUpTo(TrialMsgs, n)
    IN  body \cup {Append(b, <<ByteI>>) : b \in body}
\* S,T,S,T,C,T,T,I with the three tone timestamps varied
TraceScripts ==
    {<<Ev(ByteS, t1), Ev(ByteT, Stamp0), Ev(ByteS, t2), Ev(ByteT, Stamp0),
       Ev(ByteC, t3), Ev(ByteT, Stamp0), Ev(ByteT, Stamp0), <<ByteI>>>> :
     t1 \in ScoreStamps, t2 \in ScoreStamps, t3 \in ScoreStamps}
\* a sync tap and its release, then up to four continuation taps with their
\* timestamps varied
TimedScripts ==
    {<<Ev(ByteS, Stamp0), Ev(ByteT, <<100, 0, 0, 0>>), Ev(ByteR, Stamp0),
       Ev(ByteT, <<100, 0, 0, 0>>), Ev(ByteC, Stamp0)>>
         \o rest \o <<<<ByteI>>>> :
     rest \in SeqsUpTo({Ev(ByteT, t) : t \in ScoreStamps}, 3)}
\* one trial that can be scored, the same every time: a tap and its release,
\* the first continuation tone, two taps more and the I that ends the trial
SteadyScripts ==
    {<<Ev(ByteT, <<100, 0, 0, 0>>), Ev(ByteR, Stamp0), Ev(ByteC, Stamp0),
       Ev(ByteT, <<44, 1, 0, 0>>), Ev(ByteT, <<8, 2, 0, 0>>), <<ByteI>>>>}
\* the pad goes back to sync tones after a continuation tone
ResyncScripts ==
    {<<Ev(ByteT, Stamp0), Ev(ByteC, Stamp0), Ev(ByteS, Stamp0)>> \o rest :
     rest \in EventScripts(2)}
\* a tap, up to BriefEvents events more, and the I that ends the trial
BriefScripts ==
    {<<Ev(ByteT, Stamp0)>> \o rest \o <<<<ByteI>>>> :
     rest \in SeqsUpTo(TrialMsgs, BriefEvents)}
\* timestamps with bytes that are tag letters (I, T, R, S) or extreme
StampSamples == {<<1, 0, 0, 0>>, <<73, 84, 82, 83>>, <<255, 255, 255, 127>>}
\* the values StampScripts gives to the bytes of a timestamp: 0, 1, the
\* letter I and the largest; the last byte stops at 127, the largest for
\* which the value is one TLC can hold
StampBytes == {0, 1, 73, 255}
StampTopBytes == {0, 1, 73, 127}
StampStamps ==
    {<<b0, b1, b2, b3>> : b0 \in StampBytes, b1 \in StampBytes,
                          b2 \in StampBytes, b3 \in StampTopBytes}
\* one event with any of these timestamps, or a byte that is no tag, and
\* then the I
StampScripts ==
    {<<Ev(g, ts), <<ByteI>>>> : g \in {ByteS, ByteT, ByteR}, ts \in StampStamps}
        \cup {<<<<ByteX>>, <<ByteI>>>>}
\* the tap-counting task of the same pad: the first event has a sample
\* timestamp, or a byte that is no tag comes first; releases follow
StampSprScripts ==
    {<<Ev(g, ts)>> \o [k \in 1..(nspr_taps - 1) |-> Ev(ByteR, Stamp0)] :
         g \in {ByteT, ByteR}, ts \in StampSamples}
        \cup {<<<<ByteX>>>> \o [k \in 1..nspr_taps |-> Ev(ByteR, Stamp0)]}
\* the scripts of the tap-counting task, by the profile of the pad
SprScriptsOf(profile) ==
    IF profile = "stamp" THEN StampSprScripts ELSE SprScripts
\* the scripts of a trial, by the profile of the pad
TrialScripts(profile) ==
    CASE profile = "brief" -> BriefScripts
      [] profile = "timed" -> TimedScripts
      [] profile = "stamp" -> StampScripts
      [] profile = "steady" -> SteadyScripts
      [] OTHER -> EventScripts(MaxEvents) \cup TraceScripts
                      \cup ResyncScripts

IsDigit(b) == b \in 48..57

RECURSIVE DigitsPrefix(_)
DigitsPrefix(buf) ==
    IF buf # <<>> /\ IsDigit(Head(buf)) THEN 1 + DigitsPrefix(Tail(buf))
    ELSE 0

\* the scripts the pad may play after a command byte
ScriptsFor(cmd, current) ==
    CASE cmd = ByteP -> SprScriptsOf(dev_profile)
      [] cmd = ByteB -> TrialScripts(dev_profile)
      [] cmd = ByteI -> {<<>>}
      [] OTHER -> {current}

ModeFor(cmd, current) ==
    CASE cmd = ByteP -> "spr"
      [] cmd = ByteB -> "trial"
      [] cmd = ByteI -> "idle"
      [] OTHER -> current

BufCap == IF dev_mode = "boot" THEN MaxLineBuf ELSE MaxBuf

hostVars == <<pc, arduino_ser, hsVars, error, taskVars>>

\* the number of bytes of the script up to the end of the message that byte
\* number sent + 1 belongs to
RECURSIVE MessageEnd(_, _)
MessageEnd(script, sent) ==
    IF Len(Head(script)) > sent THEN Len(Head(script))
    ELSE Len(Head(script)) + MessageEnd(Tail(script), sent - Len(Head(script)))

\* the pad has sent whole messages only
AtMessageEnd(script, sent) ==
    \E k \in 0..Len(script) : Len(Flatten(SubSeq(script, 1, k))) = sent

\* what arrives in one step: one byte of an event, or, during startup, the
\* rest of the current message (a line of text arrives whole)
Burst ==
    LET flat == Flatten(dev_script)
        upto == IF dev_mode = "boot" THEN MessageEnd(dev_script, dev_sent)
                ELSE dev_sent + 1
    IN  SubSeq(flat, dev_sent + 1, upto)

\* the next bytes of the script arrive in the input buffer
DeviceSend ==
    /\ arduino_ser = "open"
    /\ dev_sent < Len(Flatten(dev_script))
    /\ Len(in_buf) + Len(Burst) <= BufCap
    /\ in_buf' = in_buf \o Burst
    /\ dev_sent' = dev_sent + Len(Burst)
    /\ UNCHANGED <<hostVars, out_buf, dev_mode, dev_profile, dev_script>>

\* a pad that keeps talking during startup
DeviceRepeat ==
    /\ dev_mode = "boot"
    /\ dev_sent > 0
    /\ dev_sent = Len(Flatten(dev_script))
    /\ dev_sent' = 0
    /\ UNCHANGED <<hostVars, in_buf, out_buf, dev_mode, dev_profile,
                   dev_script>>

\* the pad takes a command (B with its digits) from the host
DeviceRecv ==
    /\ out_buf # <<>>
    /\ AtMessageEnd(dev_script, dev_sent)
    /\ LET cmd == Head(out_buf)
           n == IF cmd = ByteB THEN 1 + DigitsPrefix(Tail(out_buf)) ELSE 1
       IN  /\ out_buf' = SubSeq(out_buf, n + 1, Len(out_buf))
           /\ dev_mode' = ModeFor(cmd, dev_mode)
           /\ dev_script' \in ScriptsFor(cmd, dev_script)
           /\ dev_sent' = IF cmd \in {ByteP, ByteB, ByteI} THEN 0 ELSE dev_sent
    /\ UNCHANGED <<hostVars, in_buf, dev_profile>>

DeviceNext == DeviceSend \/ DeviceRecv

(***************************************************************************)
(* Specifications.                                                         *)
(***************************************************************************)
\* the program before `try`, the pad about to start
Init ==
    /\ pc = "open"
    /\ arduino_ser = "unbound"
    /\ in_buf = <<>>
    /\ out_buf = <<>>
    /\ message = NoneMessage
    /\ all_messages = <<>>
    /\ ready = FALSE
    /\ i = Unset
    /\ in_byte = Unset
    /\ error = NoError
    /\ phase = ""
    /\ tone_times = <<>>
    /\ tap_types = <<>>
    /\ tap_times = <<>>
    /\ release_times = <<>>
    /\ timestamp = <<>>
    /\ cont_score = Unset
    /\ trial_index = 0
    /\ trial_number = Unset
    /\ block_number = Unset
    /\ tags_read = <<>>
    /\ lines_read = {}
    /\ dev_mode = "boot"
    /\ dev_profile = "full"
    /\ dev_script \in BootScripts
    /\ dev_sent = 0

InitChatty ==
    /\ Init
    /\ dev_script \in ChattyScripts

NextHandshake == HandshakeNext \/ DeviceNext

SpecHandshake == Init /\ [][NextHandshake]_vars

\* the same with a pad that may repeat its startup text without end; the
\* host is a process that always takes its next step
NextChatty == HandshakeNext \/ DeviceNext \/ DeviceRepeat

SpecChatty == InitChatty /\ [][NextChatty]_vars /\ WF_vars(HandshakeNext)

\* the program after a handshake in which the pad sent the banner and then
\* the ack, which the first poll read
InitTasks ==
    /\ pc = "connected"
    /\ arduino_ser = "open"
    /\ in_buf = <<>>
    /\ out_buf = <<>>
    /\ message = <<>>
    /\ all_messages = ReadyBanner
    /\ ready = TRUE
    /\ i = 0
    /\ in_byte = ByteI
    /\ error = NoError
    /\ phase = ""
    /\ tone_times = <<>>
    /\ tap_types = <<>>
    /\ tap_times = <<>>
    /\ release_times = <<>>
    /\ timestamp = <<>>
    /\ cont_score = Unset
    /\ trial_index = 0
    /\ trial_number = Unset
    /\ block_number = Unset
    /\ tags_read = <<>>
    /\ lines_read = {ReadyBanner, <<>>}
    /\ dev_mode = "boot"
    /\ dev_profile = "brief"
    /\ dev_script = <<ReadyBanner, <<ByteI>>>>
    /\ dev_sent = 9

NextTasks == SprNext \/ TrialNext \/ DeviceNext

SpecTasks == InitTasks /\ [][NextTasks]_vars

\* the program after the tap-counting task, in which the pad sent
\* nspr_taps releases and no tap, and stopped when told to
InitTrial ==
    /\ pc = "trial_begin"
    /\ arduino_ser = "open"
    /\ in_buf = <<>>
    /\ out_buf = <<>>
    /\ message = <<>>
    /\ all_messages = ReadyBanner
    /\ ready = TRUE
    /\ i = 0
    /\ in_byte = ByteR
    /\ error = NoError
    /\ phase = ""
    /\ tone_times = <<>>
    /\ tap_types = <<>>
    /\ tap_times = <<>>
    /\ release_times = [k \in 1..nspr_taps |-> FromBytes(Stamp0, "little")]
    /\ timestamp = Stamp0
    /\ cont_score = Unset
    /\ trial_index = 0
    /\ trial_number = 1
    /\ block_number = 0
    /\ tags_read = [k \in 1..nspr_taps |-> ByteR]
    /\ lines_read = {ReadyBanner, <<>>}
    /\ dev_mode = "idle"
    /\ dev_profile = "full"
    /\ dev_script = <<>>
    /\ dev_sent = 0

NextTrial == TrialNext \/ DeviceNext

SpecTrial == InitTrial /\ [][NextTrial]_vars

\* the same with a pad that sends taps at varied times
InitTimed ==
    /\ pc = "trial_begin"
    /\ arduino_ser = "open"
    /\ in_buf = <<>>
    /\ out_buf = <<>>
    /\ message = <<>>
    /\ all_messages = ReadyBanner
    /\ ready = TRUE
    /\ i = 0
    /\ in_byte = ByteR
    /\ error = NoError
    /\ phase = ""
    /\ tone_times = <<>>
    /\ tap_types = <<>>
    /\ tap_times = <<>>
    /\ release_times = [k \in 1..nspr_taps |-> FromBytes(Stamp0, "little")]
    /\ timestamp = Stamp0
    /\ cont_score = Unset
    /\ trial_index = 0
    /\ trial_number = 1
    /\ block_number = 0
    /\ tags_read = [k \in 1..nspr_taps |-> ByteR]
    /\ lines_read = {ReadyBanner, <<>>}
    /\ dev_mode = "idle"
    /\ dev_profile = "timed"
    /\ dev_script = <<>>
    /\ dev_sent = 0

SpecTimed == InitTimed /\ [][NextTrial]_vars

\* both tasks with a pad whose timestamps hold tag letters and extreme
\* bytes, and that may send a byte that is no tag; its trials have one event
\* and are never scored
InitStamp ==
    /\ pc = "connected"
    /\ arduino_ser = "open"
    /\ in_buf = <<>>
    /\ out_buf = <<>>
    /\ message = <<>>
    /\ all_messages = ReadyBanner
    /\ ready = TRUE
    /\ i = 0
    /\ in_byte = ByteI
    /\ error = NoError
    /\ phase = ""
    /\ tone_times = <<>>
    /\ tap_types = <<>>
    /\ tap_times = <<>>
    /\ release_times = <<>>
    /\ timestamp = <<>>
    /\ cont_score = Unset
    /\ trial_index = 0
    /\ trial_number = Unset
    /\ block_number = Unset
    /\ tags_read = <<>>
    /\ lines_read = {ReadyBanner, <<>>}
    /\ dev_mode = "boot"
    /\ dev_profile = "stamp"
    /\ dev_script = <<ReadyBanner, <<ByteI>>>>
    /\ dev_sent = 9

NextStamp ==
    SprNext \/ TrialBegin \/ TrialPoll \/ TrialToneTime \/ TrialTapTime
        \/ TrialReleaseTime \/ TrialReset \/ Score \/ DeviceNext

SpecStamp == InitStamp /\ [][NextStamp]_vars

\* the start command alone, for every octave and interval
SpecCommand == InitTrial /\ [][TrialBeginAny]_vars

\* every trial of trial_order to the end of the program, with a pad that
\* plays the same trial every time
InitRun ==
    /\ pc = "trial_begin"
    /\ arduino_ser = "open"
    /\ in_buf = <<>>
    /\ out_buf = <<>>
    /\ message = <<>>
    /\ all_messages = ReadyBanner
    /\ ready = TRUE
    /\ i = 0
    /\ in_byte = ByteR
    /\ error = NoError
    /\ phase = ""
    /\ tone_times = <<>>
    /\ tap_types = <<>>
    /\ tap_times = <<>>
    /\ release_times = [k \in 1..nspr_taps |-> FromBytes(Stamp0, "little")]
    /\ timestamp = Stamp0
    /\ cont_score = Unset
    /\ trial_index = 0
    /\ trial_number = 1
    /\ block_number = 0
    /\ tags_read = [k \in 1..nspr_taps |-> ByteR]
    /\ lines_read = {ReadyBanner, <<>>}
    /\ dev_mode = "idle"
    /\ dev_profile = "steady"
    /\ dev_script = <<>>
    /\ dev_sent = 0

NextRun == TrialNext \/ Finish \/ DeviceNext

SpecRun == InitRun /\ [][NextRun]_vars

\* the whole program
Next == HandshakeNext \/ SprNext \/ TrialNext \/ Finish \/ DeviceNext

Spec == Init /\ [][Next]_vars

(***************************************************************************)
(* What the claims are stated with.                                        *)
(***************************************************************************)
Range(f) == {f[k] : k \in DOMAIN f}

Count(f, x) == Cardinality({k \in DOMAIN f : f[k] = x})

Front(f) == SubSeq(f, 1, Len(f) - 1)

\* the phase in effect after the tags of a trial: the last tone tag, or B
RECURSIVE PhaseAfter(_)
PhaseAfter(tags) ==
    IF tags = <<>> THEN "B"
    ELSE IF Last(tags) = ByteS THEN "S"
    ELSE IF Last(tags) = ByteC THEN "C"
    ELSE PhaseAfter(Front(tags))

\* for each T among the tags, the phase in effect when it was processed
RECURSIVE PhasesAtTaps(_)
PhasesAtTaps(tags) ==
    IF tags = <<>> THEN <<>>
    ELSE IF Last(tags) = ByteT
         THEN Append(PhasesAtTaps(Front(tags)), PhaseAfter(Front(tags)))
         ELSE PhasesAtTaps(Front(tags))

\* the value of the 4 timestamp bytes of an event message
StampValue(msg) ==
    msg[2] + 256 * msg[3] + 65536 * msg[4] + 16777216 * msg[5]

InTrial == pc \in {"trial_loop", "trial_tone_ts", "trial_tap_ts",
                   "trial_rel_ts", "trial_reset", "score", "post"}

\* the taps whose tag is no longer the one they were appended with
Relabelled ==
    {k \in 1..Len(tap_types) :
        k <= Len(PhasesAtTaps(tags_read))
            /\ tap_types[k] # PhasesAtTaps(tags_read)[k]}

\* a step changes the tag of a tap already recorded
TagChanged ==
    \E k \in 1..Len(tap_types) :
        k <= Len(tap_types') /\ tap_types'[k] # tap_types[k]

\* C1: in a sync-continuation trial at most one recorded tap ever has a tag
\* other than the one it was appended with, and a step changes the tag of a
\* recorded tap only when it processes the first C tag of the trial.
C1_RelabelOnce ==
    /\ [](InTrial => Cardinality(Relabelled) <= 1)
    /\ [][(InTrial /\ TagChanged) =>
              (in_byte' = ByteC /\ ByteC \notin Range(tags_read))]_vars

TraceTags == <<ByteS, ByteT, ByteS, ByteT, ByteC, ByteT, ByteT, ByteI>>

TraceToneTimes ==
    <<StampValue(dev_script[1]), StampValue(dev_script[3]),
      StampValue(dev_script[5])>>

\* the loop of the trial has been left by its break
TrialLoopLeft == pc \in {"trial_reset", "score", "post", "trial_begin"}

\* C2, as the spec states it: the trace S,T,S,T,C,T,T,I leaves the tap tags
\* [S, C, C], the tone times [t1, t2, t3], and the loop exits on the I.
C2_TraceThreeTaps ==
    (dev_script \in TraceScripts /\ tags_read = TraceTags) =>
        /\ tap_types = <<"S", "C", "C">>
        /\ tone_times = TraceToneTimes
        /\ TrialLoopLeft

\* C2, amended: the trace has four T tags; it leaves the tap tags
\* [S, C, C, C] (the second tap is the relabelled one) and tone_times
\* [t1, t2, t3] in the order of the S, S and C tags, and the loop is left
\* when the I is read and not before.
C2_TraceFourTaps ==
    /\ (dev_script \in TraceScripts /\ tags_read = TraceTags) =>
           /\ tap_types = <<"S", "C", "C", "C">>
           /\ tone_times = TraceToneTimes
           /\ TrialLoopLeft
    /\ (dev_script \in TraceScripts /\ InTrial /\ tags_read # TraceTags) =>
           ~TrialLoopLeft

C2_Witness ==
    /\ dev_script \in TraceScripts
    /\ tags_read = TraceTags
    /\ pc = "post"
    /\ tone_times[1] > tone_times[2]
    /\ tone_times[3] > tone_times[1]

\* a record is complete: its loop has ended
RecordComplete ==
    \/ pc \in {"spr_reset", "spr_log", "trial_reset", "score", "post"}
    \/ pc = "trial_begin"
    \/ pc = "crashed" /\ error.kind = "ValueError"

\* C3: the record of the tap-counting task and of every sync-continuation
\* trial, once complete, has as many tap types as tap times.
C3_EqualLengths == RecordComplete => Len(tap_types) = Len(tap_times)

C3_Witness ==
    /\ pc = "post"
    /\ Len(tap_types) >= 2
    /\ Len(tap_times) = Len(tap_types)

SprLoopLeft == pc \in {"spr_reset", "spr_log"}

\* a step of the host (the pad's steps leave pc and the lists alone)
HostStep == pc' # pc \/ in_byte' # in_byte \/ Len(in_buf') < Len(in_buf)
                \/ timestamp' # timestamp

\* C4: the loop of the tap-counting task is left exactly when nspr_taps
\* releases have been recorded: never with fewer, I is written only then,
\* the loop does not go on after the nspr_taps-th R, and nothing is added to
\* the record after it.
C4_StopsAtTarget ==
    /\ [](SprLoopLeft =>
             /\ Len(release_times) = nspr_taps
             /\ Count(tags_read, ByteR) = nspr_taps
             /\ Last(tags_read) = ByteR)
    /\ [][/\ (out_buf' = Append(out_buf, ByteI)) =>
                 Len(release_times) = nspr_taps
          /\ (pc = "spr_loop" /\ Len(release_times) = nspr_taps /\ HostStep)
                 => (pc' = "spr_reset" /\ in_buf' = in_buf)
          /\ SprLoopLeft =>
                 UNCHANGED <<tap_types, tap_times, release_times>>]_vars

C4_Witness ==
    /\ pc = "spr_reset"
    /\ Len(tap_types) = 1
    /\ Len(in_buf) > 0

HandshakeFailed == pc \in {"except", "quit"}

\* C5: after H the echo loop polls at most 5 times and ends connected when
\* the first byte it finds is I, with UnexpectedResponse(byte) when it is
\* another byte, with NoResponse when 5 polls found nothing; it reads one
\* byte at most.
C5_EchoOutcomes ==
    /\ [](/\ i < EchoAttempts
          /\ pc = "connected" => (in_byte = ByteI /\ i \in 0..4)
          /\ (HandshakeFailed /\ error.kind = "UnexpectedResponse") =>
                 (error.arg = <<in_byte>> /\ in_byte # ByteI /\ i \in 0..4)
          /\ (HandshakeFailed /\ error.kind = "NoResponse") =>
                 (in_byte = Unset /\ i = 4)
          /\ (HandshakeFailed /\ i # Unset) =>
                 error.kind \in {"UnexpectedResponse", "NoResponse"})
    /\ [][/\ (pc = "echo" /\ i' # i /\ Len(in_buf) > 0) =>
                 /\ in_byte' = Head(in_buf)
                 /\ in_buf' = Tail(in_buf)
                 /\ pc' = IF Head(in_buf) = ByteI THEN "connected"
                          ELSE "except"
          /\ (pc = "echo" /\ i' # i /\ Len(in_buf) = 0) =>
                 (pc' = "echo" /\ in_byte' = Unset)
          /\ (pc \in {"connected", "except", "quit"}) =>
                 (Len(in_buf') >= Len(in_buf) /\ in_byte' = in_byte)]_vars

\* the ack is found by the second poll
C5_Witness == pc = "connected" /\ i = 1 /\ in_byte = ByteI

\* the bytes the host has taken from the pad's startup script
Consumed == SubSeq(Flatten(dev_script), 1, dev_sent - Len(in_buf))

PastBanner ==
    \/ pc \in {"hs_reset", "hello", "echo", "connected"}
    \/ HandshakeFailed /\ error.kind \in {"UnexpectedResponse", "NoResponse"}

\* C6: the handshake goes past the banner step if and only if a line read
\* before the first empty read is exactly Ready!\r\n; otherwise it fails
\* with UnexpectedBanner carrying all the text read, and H is never written.
C6_BannerDecides ==
    /\ [](/\ PastBanner => (ReadyBanner \in lines_read /\ <<>> \in lines_read)
          /\ (HandshakeFailed /\ error.kind = "UnexpectedBanner") =>
                 /\ ReadyBanner \notin lines_read
                 /\ <<>> \in lines_read
                 /\ error.arg = Consumed
                 /\ out_buf = <<>>
                 /\ i = Unset
          /\ (pc = "banner" /\ <<>> \notin lines_read) => message # <<>>)
    /\ [][/\ Len(out_buf') > Len(out_buf) =>
                 (ReadyBanner \in lines_read /\ out_buf' = Append(out_buf, ByteH))
          /\ (pc = "banner" /\ message = <<>> /\ pc' # pc) =>
                 (pc' = IF ReadyBanner \in lines_read THEN "hs_reset"
                        ELSE "except")]_vars

\* the only line is NotReady\r\n
C6_Witness ==
    /\ pc = "quit"
    /\ error = Raise("UnexpectedBanner", NotReadyBanner)
    /\ lines_read = {NotReadyBanner, <<>>}

\* C7: whatever the pad does, the handshake ends, connected or failed.
C7_HandshakeEnds == <>(pc \in {"connected", "quit", "crashed"})

\* C8: when the program has stopped, a link that was opened is closed, and
\* close was not attempted on a link that was never opened.
C8_ClosedOnExit ==
    pc \in {"quit", "crashed"} =>
        /\ arduino_ser \in {"unbound", "closed"}
        /\ error.kind # "NameError"

\* the timestamps of the taps tagged C, in record order
RECURSIVE TaggedC(_)
TaggedC(n) ==
    IF n = 0 THEN <<>>
    ELSE IF tap_types[n] = "C" THEN Append(TaggedC(n - 1), tap_times[n])
         ELSE TaggedC(n - 1)

RECURSIVE SumSq(_)
SumSq(xs) == IF xs = <<>> THEN 0 ELSE Head(xs) * Head(xs) + SumSq(Tail(xs))

\* r is the root, truncated, of the population variance of ds, which is
\* (n * sum of squares - square of the sum) / n^2
IsTruncatedStd(r, ds) ==
    LET n == Len(ds)
        v == n * SumSq(ds) - SumSeq(ds) * SumSeq(ds)
    IN  r >= 0 /\ r * r * n * n <= v /\ v < (r + 1) * (r + 1) * n * n

\* C9: the score of a trial is the population standard deviation of the
\* successive differences of the timestamps of the taps tagged C, truncated
\* to an integer; [100, 300, 520, 740] gives 9.
C9_ScoreIsStd ==
    pc = "post" =>
        LET ct == TaggedC(Len(tap_types))
            ds == [k \in 1..(Len(ct) - 1) |-> ct[k + 1] - ct[k]]
        IN  /\ Len(ct) >= 2
            /\ IsTruncatedStd(cont_score, ds)
            /\ ct = <<100, 300, 520, 740>> => cont_score = 9

C9_Witness ==
    /\ pc = "post"
    /\ tap_times = <<100, 100, 300, 520, 740>>
    /\ tap_types = <<"S", "C", "C", "C", "C">>
    /\ cont_score = 9

\* C10: scoring a record with fewer than 2 taps tagged C does not end the
\* program: the run goes on to the next trial.
C10_ScoreRecovers ==
    [][(pc = "score" /\ Len(TaggedC(Len(tap_types))) < 2 /\ pc' # pc) =>
           pc' = "post"]_vars

\* the bytes of the pad's script that the host has taken from the link
BytesTaken == dev_sent - Len(in_buf)

\* the host is between two dispatches of the named loop, the pad is playing
\* the script of that task, and the first message, an event, is the only one
\* dispatched so far
FirstEventTaken(loop, mode) ==
    /\ pc = loop
    /\ dev_mode = mode
    /\ Len(tags_read) = 1
    /\ tags_read[1] \in {ByteS, ByteT, ByteR}

\* the list the event with this tag is recorded in
ListOf(tag) ==
    CASE tag = ByteT -> tap_times
      [] tag = ByteR -> release_times
      [] OTHER -> tone_times

\* a 4-byte value as two 16-bit words, low word first: the value is
\* words[1] + 65536 * words[2]
StampWords(bs) ==
    <<FromBytes(SubSeq(bs, 1, 2), "little"),
      FromBytes(SubSeq(bs, 3, 4), "little")>>

\* C11: read_timestamp with 4 bytes, little-endian, takes exactly the 4
\* bytes b0..b3 that follow the tag, however they arrive, and returns
\* b0 + 256*b1 + 65536*b2 + 16777216*b3; [1,0,0,0] gives 1 and
\* [255,255,255,255] gives 4294967295 = 65535 + 65536 * 65535.
C11_ReadTimestamp ==
    /\ \A t \in {<<"spr_loop", "spr">>, <<"trial_loop", "trial">>} :
           FirstEventTaken(t[1], t[2]) =>
               /\ BytesTaken = 1 + nbytes
               /\ timestamp = SubSeq(Head(dev_script), 2, 1 + nbytes)
               /\ ListOf(tags_read[1]) = <<StampValue(Head(dev_script))>>
    /\ FromBytes(<<1, 0, 0, 0>>, "little") = 1
    /\ StampWords(<<255, 255, 255, 255>>) = <<65535, 65535>>

C11_Witness ==
    /\ FirstEventTaken("trial_loop", "trial")
    /\ tap_times = <<2147483647>>
    /\ Len(in_buf) > 0

\* the tags each loop recognises
SprTags == {ByteT, ByteR}
TrialTags == {ByteS, ByteC, ByteT, ByteR, ByteI}

\* a step dispatches a byte that the loop at pc does not recognise
UnknownTagRead ==
    /\ tags_read' # tags_read
    /\ \/ pc = "spr_loop" /\ Last(tags_read') \notin SprTags
       \/ pc = "trial_loop" /\ Last(tags_read') \notin TrialTags

\* C12: in both loops a byte in tag position that is no tag of the task is
\* reported as an error, UnknownTag with the byte; it is not skipped.
C12_UnknownTagReported ==
    [][UnknownTagRead =>
           /\ error' = Raise("UnknownTag", <<Last(tags_read')>>)
           /\ pc' # pc]_vars

\* the number of messages of a script that begin with the tag
TagCount(script, tag) ==
    Cardinality({k \in 1..Len(script) : script[k][1] = tag})

\* C13: a trial records no tap and no release that the pad sent as part of
\* the tap-counting task: before the pad has taken the start command the
\* record of the trial has none, and afterwards no more than the script of
\* the trial holds.
C13_NoStaleEvents ==
    InTrial =>
        IF dev_mode = "trial"
        THEN /\ Len(tap_types) <= TagCount(dev_script, ByteT)
             /\ Len(release_times) <= TagCount(dev_script, ByteR)
        ELSE tap_types = <<>> /\ release_times = <<>>

\* the first bytes of the messages of a script
TagsOf(script) == [k \in 1..Len(script) |-> script[k][1]]

IsPrefix(a, b) == Len(a) <= Len(b) /\ SubSeq(b, 1, Len(a)) = a

\* the host is inside read_timestamp
InTimestamp ==
    pc \in {"spr_tap_ts", "spr_rel_ts", "trial_tone_ts", "trial_tap_ts",
            "trial_rel_ts"}

\* the host is in the loop of the task whose script the pad is playing
InLoopOf(mode) ==
    /\ dev_mode = mode
    /\ IF mode = "spr"
       THEN pc \in {"spr_loop", "spr_tap_ts", "spr_rel_ts"}
       ELSE pc \in {"trial_loop", "trial_tone_ts", "trial_tap_ts",
                    "trial_rel_ts", "trial_reset"}

\* the events on record
EventsRecorded == Len(tone_times) + Len(tap_times) + Len(release_times)

C15_TapPhases ==
    /\ [][(pc = "trial_loop" /\ pc' = "trial_tap_ts") =>
              tap_types' = Append(tap_types, phase)]_vars
    /\ [](InTrial => \A k \in 1..Len(tap_types) : tap_types[k] \in {"S", "C"})

\* the host is in the loop of a trial
InTrialLoop ==
    pc \in {"trial_loop", "trial_tone_ts", "trial_tap_ts", "trial_rel_ts"}

\* a step dispatches the byte as a tag in the loop of a trial
Dispatches(b) ==
    pc = "trial_loop" /\ tags_read' # tags_read /\ Last(tags_read') = b

\* a step leaves the loop of a trial by the break of the I branch, at the
\* first I dispatched
LeavesByBreak ==
    /\ Dispatches(ByteI)
    /\ ByteI \notin Range(tags_read)
    /\ pc' = "trial_reset"

\* a step leaves the loop of a trial by the IndexError of tap_types[-1]
LeavesByIndexError ==
    /\ Dispatches(ByteC)
    /\ tap_types = <<>>
    /\ pc' = "crashed"
    /\ error' = Raise("IndexError", <<>>)

\* what C16 says of the I: it ends the loop when dispatched, the input is
\* then cleared, and the record is not touched again in that trial
EndOfTrial ==
    /\ Dispatches(ByteI) => pc' = "trial_reset"
    /\ (pc = "trial_reset" /\ pc' # pc) => (in_buf' = <<>> /\ pc' = "score")
    /\ pc \in {"trial_reset", "score", "post"} => UNCHANGED recVars

InTask ==
    pc \in {"spr_loop", "spr_tap_ts", "spr_rel_ts", "spr_reset", "spr_log"}
        \/ InTrial

\* the host has appended the type of a tap and is reading its timestamp
InTapRead == pc \in {"spr_tap_ts", "trial_tap_ts"}

\* C17, as the spec states it: tap_types and tap_times have the same length
\* in every state of a task.
C17_AlwaysEqual == InTask => Len(tap_types) = Len(tap_times)

\* C17, amended: the lengths are equal in every state of a task but those
\* in which a T has been dispatched and its timestamp is being read, where
\* tap_types is one longer.
C17_EqualButInTapRead ==
    InTask =>
        Len(tap_types) = Len(tap_times) + (IF InTapRead THEN 1 ELSE 0)

C17_Witness ==
    /\ pc = "trial_tap_ts"
    /\ Len(timestamp) = 2
    /\ Len(tap_types) = 2
    /\ Len(tap_times) = 1

\* B, the octave as one digit, the interval as three digits
PaddedCommand(octave, ioi) ==
    <<ByteB, 48 + octave, 48 + (ioi \div 100), 48 + ((ioi \div 10) % 10),
      48 + (ioi % 10)>>

\* C18: the start command is 5 bytes, B, one digit for the octave and
\* three digits for the interval, zero-padded, for every octave in 0..9
\* and every interval in 0..999.
C18_FiveByteCommand ==
    [][(pc = "trial_begin" /\ pc' = "trial_loop") =>
           /\ Len(out_buf') = Len(out_buf) + 5
           /\ \E octave \in 0..9, ioi \in 0..999 :
                  /\ out_buf' = out_buf \o PaddedCommand(octave, ioi)
                  /\ TrialBeginWith(octave, ioi)]_vars

\* C19: a C tag read while no tap has been recorded in the trial raises
\* nothing: the tone is recorded, the phase becomes Continuation, the tap
\* lists stay empty and the loop goes on.
C19_FirstToneWithoutTap ==
    [][(Dispatches(ByteC) /\ tap_types = <<>>) =>
           /\ error' = error
           /\ pc' = "trial_tone_ts"
           /\ phase' = "C"
           /\ tap_types' = <<>>
           /\ tap_times' = <<>>]_vars

\* the trials of one generated block: conditions * repetitions_per_block
BlockLength == Len(octaves) * Len(iois) * repetitions_per_block

\* the main trials finished when the trial in hand is
MainTrialsDone == trial_index - Len(octaves)

\* a step shows the section-break screen
TakesBreak ==
    pc = "post" /\ block_number > 0 /\ block_number' = block_number + 1

\* the trial in hand is the last of a generated block that is not the last
EndsBlock ==
    /\ MainTrialsDone > 0
    /\ MainTrialsDone % BlockLength = 0
    /\ MainTrialsDone < blocks * BlockLength

\* C20: the section-break screen comes exactly after the last trial of each
\* generated block but the final one (the trials between two breaks are
\* len(conditions) * repetitions_per_block), block_number never exceeds
\* blocks, and block_number = blocks only once the last generated block has
\* started.
C20_BreakAfterEachBlock ==
    /\ [][(pc = "post" /\ pc' # "post") => (TakesBreak <=> EndsBlock)]_vars
    /\ [](block_number # Unset => block_number <= blocks)
    /\ [](block_number = blocks =>
             trial_index > Len(octaves) + (blocks - 1) * BlockLength)

====
